---- MODULE Spec2Model ----
(***************************************************************************)
(* State-machine model of the car-dealership catalog service:              *)
(*   app/routers/brands.py  (brand CRUD handlers)                          *)
(*   app/routers/cars.py    (car listing, car CRUD handlers, image store)  *)
(*   app/models/brands.py, app/models/cars.py (mapped tables)              *)
(*   app/schemas.py         (request forms)                                *)
(*                                                                         *)
(* Optional values (Python None) are encoded as sequences of length <= 1:  *)
(* None is <<>> and a present value v is <<v>>.                            *)
(* Strings that are searched or stripped are sequences of pieces; a piece  *)
(* is either the blank " " or a word.                                      *)
(***************************************************************************)
EXTENDS Integers, Sequences, FiniteSets, TLC

VARIABLES
    brands,      \* table brands: sequence of rows, the index is the row id
    cars,        \* table cars: sequence of rows, the index is the row id
    files,       \* image store: set of file names present under MEDIA_ROOT
    nextFile,    \* number of file names generated so far (uuid4 is fresh)
    carColumns,  \* attributes of the mapped class Car
    inflight,    \* requests that passed their read phase and await commit
    last         \* the response most recently sent

vars == <<brands, cars, files, nextFile, carColumns, inflight, last>>

----------------------------------------------------------------------------
(* Bounds of the model *)

MaxRows == 2        \* rows the datastore holds, brands and cars together
MaxFiles == 1       \* file names the image store generates
MaxInFlight == 2    \* requests suspended between their reads and their commit
MaxListed == 2      \* rows of the cars table the listing query is run on
MaxPage == 2
MaxPageSize == 2

(* Program constants *)

PageSizeLimit == 100
MAX_IMAGE_SIZE == 2097152

None == <<>>
Some(v) == <<v>>
IsNone(o) == Len(o) = 0
Val(o) == o[1]
Opt(S) == {None} \cup {Some(v) : v \in S}

Min2(a, b) == IF a < b THEN a ELSE b

ALLOWED_IMAGE_TYPES == {"image/jpeg", "image/png", "image/webp"}

----------------------------------------------------------------------------
(* Input domains *)

Admins == {"admin1", "admin2"}
Words == {"kia", "bmw"}
Blank == " "
Prices == 1..2
BrandNames == {"Audi", "Lada"}

\* CarCreate form fields other than brand_id (schemas.py CarCreate)
CarForms ==
    { [name |-> "kia", description |-> None, price |-> 1, stock |-> 0],
      [name |-> "bmw", description |-> Some("kia"), price |-> 2, stock |-> 1] }

\* an uploaded file: declared content type and byte length
Uploads ==
    { [content_type |-> "image/jpeg", size |-> MAX_IMAGE_SIZE],
      [content_type |-> "image/gif", size |-> 1],
      [content_type |-> "image/png", size |-> MAX_IMAGE_SIZE + 1] }

\* search strings: "", " ", "  ", " kia ", "bmw kia"
Searches ==
    { <<>>, <<Blank>>, <<Blank, Blank>>, <<Blank, "kia", Blank>>,
      <<"bmw", Blank, "kia">> }

ListRequests ==
    [ page : 0..MaxPage,
      page_size : 1..MaxPageSize,
      brand_id : Opt(1..2),
      search : Opt(Searches),
      min_price : Opt(Prices),
      max_price : Opt(Prices),
      in_stock : Opt(BOOLEAN) ]

----------------------------------------------------------------------------
(* Mapped classes *)

\* models/cars.py: the columns class Car declares
CarColumns ==
    {"id", "name", "description", "price", "image_url", "stock", "is_active",
     "brand_id", "tsv"}

\* spec.md section 3: a car also carries its owning admin-user reference
CarColumnsWithOwner == CarColumns \cup {"admin_id"}

CarRow(form, brand_id, admin_id, image_url, is_active) ==
    [ name |-> form.name, description |-> form.description,
      price |-> form.price, stock |-> form.stock, brand_id |-> brand_id,
      admin_id |-> admin_id, image_url |-> image_url, is_active |-> is_active ]

----------------------------------------------------------------------------
(* Full-text search, as the datastore computes it *)

\* str.strip(): drop leading and trailing blanks
RECURSIVE LStrip(_)
LStrip(s) == IF s # <<>> /\ Head(s) = Blank THEN LStrip(Tail(s)) ELSE s

RECURSIVE RStrip(_)
RStrip(s) ==
    IF s # <<>> /\ s[Len(s)] = Blank THEN RStrip(SubSeq(s, 1, Len(s) - 1)) ELSE s

\* a search value used as received
NoStrip(s) == s

Strip(s) == RStrip(LStrip(s))

\* websearch_to_tsquery: the words of the text, all of them required
QueryWords(text) == {text[i] : i \in {j \in DOMAIN text : text[j] # Blank}}

NameWords(row) == {row.name}
DescriptionWords(row) ==
    IF IsNone(row.description) THEN {} ELSE {Val(row.description)}

\* tsv @@ ts_query; a query without words matches no row
TsvMatches(row, text) ==
    /\ QueryWords(text) # {}
    /\ QueryWords(text) \subseteq (NameWords(row) \cup DescriptionWords(row))

\* ts_rank_cd with the default weights: A (name) 1.0, B (description) 0.4,
\* in tenths
WordRank(row, w) ==
    (IF w \in NameWords(row) THEN 10 ELSE 0)
    + (IF w \in DescriptionWords(row) THEN 4 ELSE 0)

RECURSIVE SumRank(_, _)
SumRank(row, ws) ==
    IF ws = {} THEN 0
    ELSE LET w == CHOOSE x \in ws : TRUE
         IN WordRank(row, w) + SumRank(row, ws \ {w})

TsRank(row, text) == SumRank(row, QueryWords(text))

----------------------------------------------------------------------------
(* get_all_cars *)

\* Query(...) constraints of the parameters; a violation is answered 422
ListRequestValid(req) ==
    /\ req.page >= 1
    /\ req.page_size >= 1
    /\ req.page_size <= PageSizeLimit
    /\ (IsNone(req.search) \/ Len(Val(req.search)) >= 1)
    /\ (IsNone(req.min_price) \/ Val(req.min_price) >= 0)
    /\ (IsNone(req.max_price) \/ Val(req.max_price) >= 0)

\* a price check that also refuses min_price = max_price
PriceRangeRejectedOnEqual(req) ==
    /\ ~IsNone(req.min_price)
    /\ ~IsNone(req.max_price)
    /\ Val(req.min_price) >= Val(req.max_price)

\* `if min_price is not None and max_price is not None and min_price > max_price`
PriceRangeRejected(req) ==
    /\ ~IsNone(req.min_price)
    /\ ~IsNone(req.max_price)
    /\ Val(req.min_price) > Val(req.max_price)

\* the filters list before the search predicate is appended
BaseFilters(row, req) ==
    /\ row.is_active
    /\ (IsNone(req.brand_id) \/ row.brand_id = Val(req.brand_id))
    /\ (IsNone(req.min_price) \/ row.price >= Val(req.min_price))
    /\ (IsNone(req.max_price) \/ row.price <= Val(req.max_price))
    /\ (IsNone(req.in_stock)
          \/ (IF Val(req.in_stock) THEN row.stock > 0 ELSE row.stock = 0))

\* `if search:` and then `if search_value:`
SearchActive(req) ==
    /\ ~IsNone(req.search)
    /\ Val(req.search) # <<>>
    /\ Strip(Val(req.search)) # <<>>

SearchValue(req) == Strip(Val(req.search))

AllFilters(row, req) ==
    /\ BaseFilters(row, req)
    /\ (SearchActive(req) => TsvMatches(row, SearchValue(req)))

MatchingIds(table, req) ==
    {i \in DOMAIN table : AllFilters(table[i], req)}

SetToSeq(S) ==
    LET n == Cardinality(S)
    IN CHOOSE f \in [1..n -> S] : \A i, j \in 1..n : i # j => f[i] # f[j]

\* ORDER BY of the item query
ListOrder(table, req, a, b) ==
    IF SearchActive(req)
    THEN LET ra == TsRank(table[a], SearchValue(req))
             rb == TsRank(table[b], SearchValue(req))
         IN ra > rb \/ (ra = rb /\ a < b)
    ELSE a < b

Ordered(table, req) ==
    SortSeq(SetToSeq(MatchingIds(table, req)),
            LAMBDA a, b : ListOrder(table, req, a, b))

\* an offset of page * page_size
PageOfShifted(seq, page, page_size) ==
    SubSeq(seq, page * page_size + 1,
           Min2((page + 1) * page_size, Len(seq)))

\* .offset((page - 1) * page_size).limit(page_size)
PageOf(seq, page, page_size) ==
    SubSeq(seq, (page - 1) * page_size + 1,
           Min2(page * page_size, Len(seq)))

\* select(CarModel).where(*filters).order_by(...).offset(...).limit(...)
ItemsQuery(table, req) ==
    PageOf(Ordered(table, req), req.page, req.page_size)

\* a total that counts the rows of the page
TotalOnPage(table, req) == Len(ItemsQuery(table, req))

\* select(func.count()).select_from(CarModel).where(*filters)
TotalQuery(table, req) == Cardinality(MatchingIds(table, req))

\* a response: the handler, its request, the status code, the body (the
\* detail message of an error) and the number of datastore statements the
\* handler issued before answering
Response(op, req, status, body, queries) ==
    [op |-> op, req |-> req, status |-> status, body |-> body,
     queries |-> queries]

NoResponse == Response("none", <<>>, 0, "", 0)

CarListBody(items, total, req) ==
    [items |-> items, total |-> total, page |-> req.page,
     page_size |-> req.page_size]

GetAllCarsResult(table, req) ==
    IF ~ListRequestValid(req)
    THEN Response("get_all_cars", req, 422, "validation error", 0)
    ELSE IF PriceRangeRejected(req)
    THEN Response("get_all_cars", req, 400, "min_price > max_price", 0)
    ELSE Response("get_all_cars", req, 200,
                  CarListBody(ItemsQuery(table, req), TotalQuery(table, req),
                              req), 2)

GetAllCars(req) ==
    /\ last' = GetAllCarsResult(cars, req)
    /\ UNCHANGED <<brands, cars, files, nextFile, carColumns>>

----------------------------------------------------------------------------
(* Image store: save_car_image, remove_car_image *)

\* the HTTPException save_car_image raises, "" when it accepts the upload
ImageRejection(upload) ==
    IF upload.content_type \notin ALLOWED_IMAGE_TYPES
    THEN "Only JPG, PNG or WebP images are allowed"
    ELSE IF upload.size > MAX_IMAGE_SIZE THEN "Image is too large"
    ELSE ""

ImageAccepted(upload) == ImageRejection(upload) = ""

\* the name uuid4 generates next: one that was never generated before
NewFileName == nextFile + 1

\* remove_car_image(url): nothing for None or a missing file
RemoveCarImage(store, url) == IF IsNone(url) THEN store ELSE store \ {Val(url)}

----------------------------------------------------------------------------
(* Lookups *)

\* a brand lookup without the is_active filter
AnyBrand(brand_id) == brand_id \in DOMAIN brands

\* select(BrandModel).where(id == brand_id, is_active == True).first()
ActiveBrand(brand_id) ==
    brand_id \in DOMAIN brands /\ brands[brand_id].is_active

\* select(CarModel).where(id == car_id, is_active == True).first()
ActiveCar(car_id) == car_id \in DOMAIN cars /\ cars[car_id].is_active

\* the lookup of update_car: select(CarModel).where(id == car_id).first()
UpdateCarLookup(car_id) == car_id \in DOMAIN cars

\* the lookup of delete_car
DeleteCarLookup(car_id) == ActiveCar(car_id)

\* the lookup of update_brand
UpdateBrandLookup(brand_id) == ActiveBrand(brand_id)

\* the lookup of delete_brand
DeleteBrandLookup(brand_id) == ActiveBrand(brand_id)

\* db_car.admin_id != current_user.id
NotOwner(car_id, admin) == cars[car_id].admin_id # admin

\* the outcome of a handler's checks: an error, or Pass
Error(code, detail) == [code |-> code, detail |-> detail]
Pass == Error(0, "")

Respond(op, req, status, body, queries) ==
    last' = Response(op, req, status, body, queries)

----------------------------------------------------------------------------
(* Requests in flight: those whose reads are done and whose commit is due,  *)
(* by handler                                                                *)

NoneInFlight ==
    [create_car |-> {}, update_car |-> {}, delete_car |-> {},
     update_brand |-> {}, delete_brand |-> {}, get_all_cars |-> {}]

InFlightCount ==
    Cardinality(inflight.create_car) + Cardinality(inflight.update_car)
    + Cardinality(inflight.delete_car) + Cardinality(inflight.update_brand)
    + Cardinality(inflight.delete_brand)

Suspend(op, p) == inflight' = [inflight EXCEPT ![op] = @ \cup {p}]
Resume(op, p) == inflight' = [inflight EXCEPT ![op] = @ \ {p}]

\* rows the datastore will hold once every insert in flight has committed
RowsDue == Len(brands) + Len(cars) + Cardinality(inflight.create_car)

----------------------------------------------------------------------------
(* Brand handlers (routers/brands.py) *)

ActiveBrandIds == {b \in DOMAIN brands : brands[b].is_active}

GetAllBrands ==
    /\ Respond("get_all_brands", <<>>, 200, ActiveBrandIds, 1)
    /\ UNCHANGED <<brands, cars, files, nextFile, carColumns, inflight>>

CreateBrand(name) ==
    /\ RowsDue < MaxRows
    /\ brands' = Append(brands, [name |-> name, is_active |-> TRUE])
    /\ Respond("create_brand", [name |-> name], 201, Len(brands) + 1, 1)
    /\ UNCHANGED <<cars, files, nextFile, carColumns, inflight>>

\* update(BrandModel).where(id == brand_id).values(name=...)
UpdateBrandWrite(p) == [brands EXCEPT ![p.brand_id].name = p.name]

\* update(BrandModel).where(id == brand_id).values(is_active=False)
DeleteBrandWrite(p) == [brands EXCEPT ![p.brand_id].is_active = FALSE]

UpdateBrandStatus(p) ==
    IF ~UpdateBrandLookup(p.brand_id) THEN Error(404, "Brand not found")
    ELSE Pass

UpdateBrandReject(p) ==
    /\ Respond("update_brand", p, UpdateBrandStatus(p).code,
               UpdateBrandStatus(p).detail, 1)
    /\ UNCHANGED <<brands, cars, files, nextFile, carColumns>>

UpdateBrandCommit(p) ==
    /\ brands' = UpdateBrandWrite(p)
    /\ Respond("update_brand", p, 200, p.brand_id, 2)
    /\ UNCHANGED <<cars, files, nextFile, carColumns>>

DeleteBrandStatus(p) ==
    IF ~DeleteBrandLookup(p.brand_id) THEN Error(404, "Brand not found")
    ELSE Pass

DeleteBrandReject(p) ==
    /\ Respond("delete_brand", p, DeleteBrandStatus(p).code,
               DeleteBrandStatus(p).detail, 1)
    /\ UNCHANGED <<brands, cars, files, nextFile, carColumns>>

DeleteBrandCommit(p) ==
    /\ brands' = DeleteBrandWrite(p)
    /\ Respond("delete_brand", p, 200, p.brand_id, 2)
    /\ UNCHANGED <<cars, files, nextFile, carColumns>>

----------------------------------------------------------------------------
(* Car handlers (routers/cars.py) *)

CarsOfBrand(brand_id) ==
    {c \in DOMAIN cars : cars[c].brand_id = brand_id /\ cars[c].is_active}

GetCarsByBrandStatus(brand_id) ==
    IF ~ActiveBrand(brand_id) THEN Error(404, "Brand not found or inactive")
    ELSE Pass

GetCarsByBrand(brand_id) ==
    LET req == [brand_id |-> brand_id]
        st == GetCarsByBrandStatus(brand_id)
    IN /\ IF st # Pass
          THEN Respond("get_cars_by_brand", req, st.code, st.detail, 1)
          ELSE Respond("get_cars_by_brand", req, 200, CarsOfBrand(brand_id), 2)
       /\ UNCHANGED <<brands, cars, files, nextFile, carColumns, inflight>>

GetCarStatus(car_id) ==
    IF ~ActiveCar(car_id) THEN Error(404, "Car not found or inactive")
    ELSE IF ~ActiveBrand(cars[car_id].brand_id)
    THEN Error(400, "Brand not found or inactive")
    ELSE Pass

GetCar(car_id) ==
    LET req == [car_id |-> car_id]
        st == GetCarStatus(car_id)
    IN /\ IF st # Pass
          THEN Respond("get_car", req, st.code, st.detail,
                       IF st.code = 404 THEN 1 ELSE 2)
          ELSE Respond("get_car", req, 200, car_id, 2)
       /\ UNCHANGED <<brands, cars, files, nextFile, carColumns, inflight>>

\* a create_car, update_car or delete_car request with what the handler
\* holds of it: car_id is 0 for create_car; image_url is the image reference
\* of the object the handler constructed or loaded
CarRequest(car_id, form, brand_id, image, admin) ==
    [car_id |-> car_id, form |-> form, brand_id |-> brand_id,
     image |-> image, admin |-> admin, image_url |-> None]

\* what a response records of a create_car request
Brief(p) == [car_id |-> p.car_id, brand_id |-> p.brand_id, admin |-> p.admin]

\* what a response records of an update_car or delete_car request
BriefOf(p) == [car_id |-> p.car_id, admin |-> p.admin]

\* create_car

CreateCarStatus(p) ==
    IF ~ActiveBrand(p.brand_id)
    THEN Error(400, "Brand not found or inactive")
    ELSE IF ~IsNone(p.image) /\ ~ImageAccepted(Val(p.image))
    THEN Error(400, ImageRejection(Val(p.image)))
    ELSE IF "admin_id" \notin carColumns
    THEN Error(500, "TypeError")    \* CarModel(..., admin_id=...) raises
    ELSE Pass

\* save_car_image(image) runs once the brand check has passed, before the
\* row is constructed
CreateCarSavesImage(p) ==
    ActiveBrand(p.brand_id) /\ ~IsNone(p.image) /\ ImageAccepted(Val(p.image))

CreateCarImage(p) ==
    IF CreateCarSavesImage(p)
    THEN /\ nextFile < MaxFiles
         /\ files' = files \cup {NewFileName}
         /\ nextFile' = NewFileName
    ELSE UNCHANGED <<files, nextFile>>

\* db_car as constructed: image_url is what save_car_image returned
Constructed(p) ==
    [p EXCEPT !.image_url = IF IsNone(p.image) THEN None
                            ELSE Some(NewFileName)]

CreateCarReject(p) ==
    /\ Respond("create_car", Brief(p), CreateCarStatus(p).code,
               CreateCarStatus(p).detail, 1)
    /\ UNCHANGED <<brands, cars, carColumns>>

\* db.add(db_car); db.commit()
CreateCarWrite(p) ==
    Append(cars, CarRow(p.form, p.brand_id, p.admin, p.image_url, TRUE))

CreateCarCommit(p) ==
    /\ cars' = CreateCarWrite(p)
    /\ Respond("create_car", Brief(p), 201, Len(cars) + 1, 2)
    /\ UNCHANGED <<brands, carColumns>>

\* update_car

UpdateCarStatus(p) ==
    IF ~UpdateCarLookup(p.car_id) THEN Error(404, "Car not found")
    ELSE IF "admin_id" \notin carColumns
    THEN Error(500, "AttributeError")      \* db_car.admin_id raises
    ELSE IF NotOwner(p.car_id, p.admin)
    THEN Error(403, "You can only update your own cars")
    ELSE IF ~ActiveBrand(p.brand_id)
    THEN Error(400, "Brand not found or inactive")
    ELSE Pass

UpdateCarReject(p) ==
    /\ Respond("update_car", BriefOf(p), UpdateCarStatus(p).code,
               UpdateCarStatus(p).detail,
               IF UpdateCarStatus(p).code = 400 THEN 2 ELSE 1)
    /\ UNCHANGED <<brands, cars, files, nextFile, carColumns>>

\* an update whose values also set is_active
UpdateCarWriteActivating(p) ==
    [cars EXCEPT ![p.car_id] =
        [@ EXCEPT !.name = p.form.name, !.description = p.form.description,
                  !.price = p.form.price, !.stock = p.form.stock,
                  !.brand_id = p.brand_id, !.is_active = TRUE]]

\* update(CarModel).where(id == car_id).values(**car.model_dump())
UpdateCarWrite(p) ==
    [cars EXCEPT ![p.car_id] =
        [@ EXCEPT !.name = p.form.name, !.description = p.form.description,
                  !.price = p.form.price, !.stock = p.form.stock,
                  !.brand_id = p.brand_id]]

\* the image store once update_car has handled its upload:
\*     remove_car_image(db_car.image_url)
\*     db_car.image_url = await save_car_image(image)
UpdateCarFiles(p) ==
    IF ImageAccepted(Val(p.image))
    THEN RemoveCarImage(files, p.image_url) \cup {NewFileName}
    ELSE RemoveCarImage(files, p.image_url)

UpdateCarCommit(p) ==
    /\ IF IsNone(p.image)
       THEN /\ cars' = UpdateCarWrite(p)
            /\ Respond("update_car", BriefOf(p), 200, p.car_id, 3)
            /\ UNCHANGED <<files, nextFile>>
       ELSE /\ files' = UpdateCarFiles(p)
            /\ IF ~ImageAccepted(Val(p.image))
               THEN \* save_car_image raises: nothing is committed
                    /\ Respond("update_car", BriefOf(p), 400,
                               ImageRejection(Val(p.image)), 3)
                    /\ UNCHANGED <<cars, nextFile>>
               ELSE /\ nextFile < MaxFiles
                    /\ nextFile' = NewFileName
                    /\ cars' = [UpdateCarWrite(p) EXCEPT
                                  ![p.car_id].image_url = Some(NewFileName)]
                    /\ Respond("update_car", BriefOf(p), 200, p.car_id, 3)
    /\ UNCHANGED <<brands, carColumns>>

\* delete_car

DeleteCarStatus(p) ==
    IF ~DeleteCarLookup(p.car_id) THEN Error(404, "Car not found or inactive")
    ELSE IF "admin_id" \notin carColumns
    THEN Error(500, "AttributeError")      \* car.admin_id raises
    ELSE IF NotOwner(p.car_id, p.admin)
    THEN Error(403, "You can only delete your own cars")
    ELSE Pass

DeleteCarReject(p) ==
    /\ Respond("delete_car", BriefOf(p), DeleteCarStatus(p).code,
               DeleteCarStatus(p).detail, 1)
    /\ UNCHANGED <<brands, cars, files, nextFile, carColumns>>

\* a soft delete that also clears the image reference
DeleteCarWriteClearingImage(p) ==
    [cars EXCEPT ![p.car_id].is_active = FALSE, ![p.car_id].image_url = None]

\* update(CarModel).where(id == car_id).values(is_active=False)
DeleteCarWrite(p) == [cars EXCEPT ![p.car_id].is_active = FALSE]

DeleteCarCommit(p) ==
    /\ cars' = DeleteCarWrite(p)
    /\ files' = RemoveCarImage(files, p.image_url)
    /\ Respond("delete_car", BriefOf(p), 200, p.car_id, 2)
    /\ UNCHANGED <<brands, nextFile, carColumns>>

\* the object update_car or delete_car loaded: image_url as the lookup read it
Loaded(p) == [p EXCEPT !.image_url = cars[p.car_id].image_url]

----------------------------------------------------------------------------
(* The service, one request at a time: every handler runs from its first   *)
(* statement to its response with no other request in between              *)

UpdateBrand(brand_id, name) ==
    LET p == [brand_id |-> brand_id, name |-> name]
    IN /\ IF UpdateBrandStatus(p) # Pass THEN UpdateBrandReject(p)
          ELSE UpdateBrandCommit(p)
       /\ UNCHANGED inflight

DeleteBrand(brand_id) ==
    LET p == [brand_id |-> brand_id, name |-> ""]
    IN /\ IF DeleteBrandStatus(p) # Pass THEN DeleteBrandReject(p)
          ELSE DeleteBrandCommit(p)
       /\ UNCHANGED inflight

CreateCar(p) ==
    /\ CreateCarImage(p)
    /\ IF CreateCarStatus(p) # Pass THEN CreateCarReject(p)
       ELSE /\ RowsDue < MaxRows
            /\ CreateCarCommit(Constructed(p))
    /\ UNCHANGED inflight

UpdateCar(p) ==
    /\ IF UpdateCarStatus(p) # Pass THEN UpdateCarReject(p)
       ELSE UpdateCarCommit(Loaded(p))
    /\ UNCHANGED inflight

DeleteCar(p) ==
    /\ IF DeleteCarStatus(p) # Pass THEN DeleteCarReject(p)
       ELSE DeleteCarCommit(Loaded(p))
    /\ UNCHANGED inflight

\* identifiers a request may name: those of the rows present and the first
\* one that is absent
BrandIds == 1..(Len(brands) + 1)
CarIds == 1..(Len(cars) + 1)

CreateCarRequests(images) ==
    { CarRequest(0, f, b, i, a) :
        f \in CarForms, b \in BrandIds, i \in images, a \in Admins }

UpdateCarRequests(images) ==
    { CarRequest(c, f, b, i, a) :
        c \in CarIds, f \in CarForms, b \in BrandIds, i \in images,
        a \in Admins }

DeleteCarRequests ==
    { CarRequest(c, CHOOSE f \in CarForms : TRUE, 0, None, a) :
        c \in CarIds, a \in Admins }

\* the listing requests of the sequential service: unfiltered pages
BrowseRequests ==
    { req \in ListRequests :
        /\ req.page >= 1 /\ req.page_size = MaxPageSize
        /\ IsNone(req.brand_id) /\ IsNone(req.search)
        /\ IsNone(req.min_price) /\ IsNone(req.max_price)
        /\ IsNone(req.in_stock) }

Init ==
    /\ brands = <<>>
    /\ cars = <<>>
    /\ files = {}
    /\ nextFile = 0
    /\ carColumns \in {CarColumns, CarColumnsWithOwner}
    /\ inflight = NoneInFlight
    /\ last = NoResponse

Next ==
    \/ GetAllBrands
    \/ \E name \in BrandNames : CreateBrand(name)
    \/ \E b \in BrandIds, name \in BrandNames : UpdateBrand(b, name)
    \/ \E b \in BrandIds : DeleteBrand(b)
    \/ \E b \in BrandIds : GetCarsByBrand(b)
    \/ \E c \in CarIds : GetCar(c)
    \/ \E req \in BrowseRequests : GetAllCars(req) /\ UNCHANGED inflight
    \/ \E p \in CreateCarRequests(Opt(Uploads)) : CreateCar(p)
    \/ \E p \in UpdateCarRequests(Opt(Uploads)) : UpdateCar(p)
    \/ \E p \in DeleteCarRequests : DeleteCar(p)

Spec == Init /\ [][Next]_vars

----------------------------------------------------------------------------
(* The service under concurrent requests: a handler that reads and then    *)
(* writes is suspended after its reads, and commits in a later step        *)

BeginUpdateBrand(brand_id, name) ==
    LET p == [brand_id |-> brand_id, name |-> name]
    IN IF UpdateBrandStatus(p) # Pass
       THEN UpdateBrandReject(p) /\ UNCHANGED inflight
       ELSE /\ InFlightCount < MaxInFlight
            /\ Suspend("update_brand", p)
            /\ UNCHANGED <<brands, cars, files, nextFile, carColumns, last>>

EndUpdateBrand(p) == UpdateBrandCommit(p) /\ Resume("update_brand", p)

BeginDeleteBrand(brand_id) ==
    LET p == [brand_id |-> brand_id, name |-> ""]
    IN IF DeleteBrandStatus(p) # Pass
       THEN DeleteBrandReject(p) /\ UNCHANGED inflight
       ELSE /\ InFlightCount < MaxInFlight
            /\ Suspend("delete_brand", p)
            /\ UNCHANGED <<brands, cars, files, nextFile, carColumns, last>>

EndDeleteBrand(p) == DeleteBrandCommit(p) /\ Resume("delete_brand", p)

BeginCreateCar(p) ==
    /\ CreateCarImage(p)
    /\ IF CreateCarStatus(p) # Pass
       THEN CreateCarReject(p) /\ UNCHANGED inflight
       ELSE /\ InFlightCount < MaxInFlight
            /\ RowsDue < MaxRows
            /\ Suspend("create_car", Constructed(p))
            /\ UNCHANGED <<brands, cars, carColumns, last>>

EndCreateCar(p) ==
    /\ CreateCarCommit(p)
    /\ Resume("create_car", p)
    /\ UNCHANGED <<files, nextFile>>

BeginUpdateCar(p) ==
    IF UpdateCarStatus(p) # Pass
    THEN UpdateCarReject(p) /\ UNCHANGED inflight
    ELSE /\ InFlightCount < MaxInFlight
         /\ Suspend("update_car", Loaded(p))
         /\ UNCHANGED <<brands, cars, files, nextFile, carColumns, last>>

EndUpdateCar(p) == UpdateCarCommit(p) /\ Resume("update_car", p)

BeginDeleteCar(p) ==
    IF DeleteCarStatus(p) # Pass
    THEN DeleteCarReject(p) /\ UNCHANGED inflight
    ELSE /\ InFlightCount < MaxInFlight
         /\ Suspend("delete_car", Loaded(p))
         /\ UNCHANGED <<brands, cars, files, nextFile, carColumns, last>>

EndDeleteCar(p) == DeleteCarCommit(p) /\ Resume("delete_car", p)

\* uploads of the concurrent requests: none, or one save_car_image accepts
ConcImages == {None} \cup {Some(u) : u \in {v \in Uploads : ImageAccepted(v)}}

NextConc ==
    \/ \E name \in BrandNames : CreateBrand(name)
    \/ \E b \in BrandIds, name \in BrandNames : BeginUpdateBrand(b, name)
    \/ \E p \in inflight.update_brand : EndUpdateBrand(p)
    \/ \E b \in BrandIds : BeginDeleteBrand(b)
    \/ \E p \in inflight.delete_brand : EndDeleteBrand(p)
    \/ \E p \in CreateCarRequests(ConcImages) : BeginCreateCar(p)
    \/ \E p \in inflight.create_car : EndCreateCar(p)
    \/ \E p \in UpdateCarRequests(ConcImages) : BeginUpdateCar(p)
    \/ \E p \in inflight.update_car : EndUpdateCar(p)
    \/ \E p \in DeleteCarRequests : BeginDeleteCar(p)
    \/ \E p \in inflight.delete_car : EndDeleteCar(p)

SpecConc == Init /\ [][NextConc]_vars

----------------------------------------------------------------------------
(* The listing query over a bounded family of stores *)

QueryRow(name, description, price, stock, brand_id, is_active) ==
    CarRow([name |-> name, description |-> description, price |-> price,
            stock |-> stock], brand_id, "admin1", None, is_active)

QueryRows ==
    { QueryRow("kia", None, 1, 0, 1, TRUE),
      QueryRow("bmw", Some("kia"), 2, 1, 1, TRUE),
      QueryRow("kia", Some("bmw"), 2, 0, 2, TRUE),
      QueryRow("bmw", None, 1, 1, 2, TRUE),
      QueryRow("kia", Some("bmw"), 1, 1, 1, FALSE) }

QueryStores == UNION { [1..n -> QueryRows] : n \in 0..MaxListed }

\* a store and one list request received and not yet handled
QueryInit ==
    /\ brands = <<>>
    /\ cars \in QueryStores
    /\ files = {}
    /\ nextFile = 0
    /\ carColumns = CarColumnsWithOwner
    /\ inflight \in {[NoneInFlight EXCEPT !.get_all_cars = {req}] :
                        req \in ListRequests}
    /\ last = NoResponse

QueryNext ==
    \E req \in inflight.get_all_cars :
        /\ GetAllCars(req)
        /\ Resume("get_all_cars", req)

SpecQuery == QueryInit /\ [][QueryNext]_vars

----------------------------------------------------------------------------
(* Properties of get_all_cars, checked under SpecQuery *)

Range(seq) == {seq[i] : i \in DOMAIN seq}

Listed == last.op = "get_all_cars" /\ last.status = 200

\* a request the parameter declarations of the specification admit
WellFormed(req) ==
    /\ req.page >= 1
    /\ req.page_size >= 1
    /\ req.page_size <= 100

\* both price bounds supplied, the minimum above the maximum
Inverted(req) ==
    /\ req.min_price # None
    /\ req.max_price # None
    /\ Val(req.min_price) > Val(req.max_price)

\* the active cars that satisfy the brand, price and stock filters
Wanted(req) ==
    { i \in DOMAIN cars :
        /\ cars[i].is_active
        /\ req.brand_id # None => cars[i].brand_id = Val(req.brand_id)
        /\ req.min_price # None => cars[i].price >= Val(req.min_price)
        /\ req.max_price # None => cars[i].price <= Val(req.max_price)
        /\ req.in_stock = Some(TRUE) => cars[i].stock > 0
        /\ req.in_stock = Some(FALSE) => cars[i].stock = 0 }

\* C1: a page holds at most page_size items, and over an unchanged store the
\* total returned for a filter set is the same for every page number
C1_PageSizeAndTotal ==
    Listed =>
        /\ Len(last.body.items) <= last.req.page_size
        /\ \A pg \in 1..MaxPage :
             LET other == GetAllCarsResult(cars, [last.req EXCEPT !.page = pg])
             IN /\ other.status = 200
                /\ other.body.total = last.body.total

\* C1: a second page that is full, with more rows matching than it holds
C1_Witness ==
    /\ Listed
    /\ last.req.page = 2
    /\ Len(last.body.items) = last.req.page_size
    /\ last.body.total > Len(last.body.items)

\* C2: without a search string the items are the slice
\* [(page-1)*page_size, page*page_size) of the active cars that satisfy the
\* filters taken in ascending id order, the total is the size of that whole
\* set, and a page past the last one is empty with the same total
C2_ExactSlice ==
    (/\ last.op = "get_all_cars"
     /\ last.req.search = None
     /\ WellFormed(last.req)
     /\ ~Inverted(last.req)) =>
        LET req == last.req
            offset == (req.page - 1) * req.page_size
            n == Cardinality(Wanted(req))
            items == last.body.items
        IN /\ last.status = 200
           /\ last.body.total = n
           /\ Len(items) = IF n <= offset THEN 0
                           ELSE Min2(req.page_size, n - offset)
           /\ \A k \in DOMAIN items :
                /\ items[k] \in Wanted(req)
                /\ Cardinality({i \in Wanted(req) : i < items[k]})
                     = offset + k - 1

\* C2: a filtered request for a page past the last one, answered with no
\* items and a positive total
C2_Witness ==
    /\ Listed
    /\ last.req.search = None
    /\ last.req.brand_id # None
    /\ last.body.items = <<>>
    /\ last.body.total > 0

\* a search string with no character other than blanks, the empty one included
Blanks(s) == \A i \in DOMAIN s : s[i] = Blank

\* the answer is the one the same request gets without its search parameter
SameAsNoSearch ==
    LET plain == GetAllCarsResult(cars, [last.req EXCEPT !.search = None])
    IN /\ last.status = plain.status
       /\ last.body = plain.body

C9_PriceRange ==
    last.op = "get_all_cars" =>
        IF Inverted(last.req)
        THEN last.status \in 400..499 /\ last.queries = 0
        ELSE /\ last.status # 400
             /\ (WellFormed(last.req)
                   /\ (last.req.search = None \/ Val(last.req.search) # <<>>))
                  => last.status = 200

\* C9: an otherwise well-formed request with min_price 2 and max_price 1,
\* refused
C9_Witness ==
    /\ last.op = "get_all_cars"
    /\ WellFormed(last.req)
    /\ last.req.min_price = Some(2)
    /\ last.req.max_price = Some(1)
    /\ last.status = 400

----------------------------------------------------------------------------
(* Properties of the handlers that write, checked under Spec *)

\* the step answered a request to handler op
Answered(op) == last'.op = op

NoBrand(b) == ~(b \in DOMAIN brands /\ brands[b].is_active)
NoCar(c) == ~(c \in DOMAIN cars /\ cars[c].is_active)

\* C3 as stated: the owner recorded on a car is the admin who created it; an
\* update_car or delete_car by another admin is answered forbidden and leaves
\* the row and the image files as they were; the owner's request succeeds
C3_OwnershipEnforced ==
    [][ /\ (Answered("create_car") /\ last'.status \notin 400..499) =>
              /\ last'.status = 201
              /\ cars'[last'.body].admin_id = last'.req.admin
        /\ (/\ Answered("update_car") \/ Answered("delete_car")
            /\ last'.req.car_id \in DOMAIN cars
            /\ Answered("delete_car") => cars[last'.req.car_id].is_active) =>
              IF cars[last'.req.car_id].admin_id # last'.req.admin
              THEN last'.status = 403 /\ cars' = cars /\ files' = files
              ELSE last'.status \in {200, 400}
      ]_vars

C6_DeletedCarHidden ==
    [][ /\ (Answered("delete_car") /\ last'.status = 200) =>
              \E c \in DOMAIN cars :
                 /\ c = last'.req.car_id
                 /\ cars' = [cars EXCEPT ![c].is_active = FALSE]
                 /\ GetCarStatus(c)'.code = 404
                 /\ \A b \in DOMAIN brands : c \notin CarsOfBrand(b)'
                 /\ \A req \in ListRequests :
                      LET answer == GetAllCarsResult(cars', req)
                      IN answer.status = 200 =>
                           c \notin Range(answer.body.items)
        /\ \A c \in DOMAIN cars :
              ~cars[c].is_active =>
                 /\ c \in DOMAIN cars'
                 /\ ~cars'[c].is_active
                 /\ (Answered("get_all_cars") /\ last'.status = 200) =>
                      c \notin Range(last'.body.items)
                 /\ (Answered("get_cars_by_brand") /\ last'.status = 200) =>
                      c \notin last'.body
                 /\ (Answered("get_car") /\ last'.req.car_id = c) =>
                      last'.status = 404
      ]_vars

\* C6: delete_car has just succeeded on a car that had an image and whose
\* brand is active
C6_Witness ==
    /\ last.op = "delete_car"
    /\ last.status = 200
    /\ cars[last.req.car_id].image_url # None
    /\ ActiveBrand(cars[last.req.car_id].brand_id)

\* C7: a successful delete_brand removes no car row and changes no car's
\* is_active; from then on the brand is not in the get_all_brands listing,
\* and every create_car that names it is refused with a client error and
\* creates no row
C7_DeletedBrandRefused ==
    [][ /\ (Answered("delete_brand") /\ last'.status = 200) =>
              /\ cars' = cars
              /\ ~brands'[last'.req.brand_id].is_active
              /\ last'.req.brand_id \notin ActiveBrandIds'
        /\ \A b \in DOMAIN brands :
              ~brands[b].is_active =>
                 /\ b \in DOMAIN brands'
                 /\ ~brands'[b].is_active
                 /\ (Answered("get_all_brands") /\ last'.status = 200) =>
                      b \notin last'.body
                 /\ (Answered("create_car") /\ last'.req.brand_id = b) =>
                      /\ last'.status \in 400..499
                      /\ cars' = cars
      ]_vars

\* C7: create_car refused for naming a deleted brand that still has a car
C7_Witness ==
    /\ last.op = "create_car"
    /\ last.status = 400
    /\ last.req.brand_id \in DOMAIN brands
    /\ ~brands[last.req.brand_id].is_active
    /\ \E c \in DOMAIN cars : cars[c].brand_id = last.req.brand_id

----------------------------------------------------------------------------
(* Property of concurrent requests, checked under SpecConc *)

\* the step is the commit of a request to handler op
Committed(op) ==
    Cardinality(inflight'[op]) < Cardinality(inflight[op])

----------------------------------------------------------------------------
(* Lifecycle of rows, checked under Spec *)

\* C11: over any sequence of brand and car operations the sets of brand and
\* car row identifiers never shrink, and no operation turns the is_active
\* flag of a brand or of a car from false back to true
C11_SoftDeletePermanent ==
    [][ /\ DOMAIN brands \subseteq DOMAIN brands'
        /\ DOMAIN cars \subseteq DOMAIN cars'
        /\ \A b \in DOMAIN brands :
              ~brands[b].is_active => ~brands'[b].is_active
        /\ \A c \in DOMAIN cars :
              ~cars[c].is_active => ~cars'[c].is_active
      ]_vars

\* C11: update_car has just rewritten the row of a soft-deleted car
C11_Witness ==
    /\ last.op = "update_car"
    /\ last.status = 200
    /\ ~cars[last.req.car_id].is_active

====
